---- MODULE Spec2Model ----
(***************************************************************************)
(* Model of DefaultRemoteOpsChecker.UsingRemoteOps                         *)
(* (server/events/runtime/remote_ops_checker.go).                          *)
(*                                                                         *)
(* One invocation of the procedure is a run of the state machine: the     *)
(* statefile on disk and the caller's arguments are fixed by Init, the    *)
(* credentials file and the replies of the TFE API are chosen when the    *)
(* procedure reads them.  Every file read and API call is appended to     *)
(* `calls`, so "never reads X" and "never calls Y" are statements about   *)
(* that log.  A Go run-time panic (nil dereference, failed type           *)
(* assertion) ends the run in pc = "Panicked" without a return value.     *)
(***************************************************************************)
EXTENDS Integers, Sequences, FiniteSets, TLC

VARIABLES
    pc,              \* position of the invocation in UsingRemoteOps
    workspace,       \* argument: the local (CLI) workspace name
    projectAbsPath,  \* argument: the project directory
    stateFile,       \* the file <project>/.terraform/terraform.tfstate on disk
    stateBytes,      \* local: the JSON document read from the statefile
    statefile,       \* local: the decoded Statefile struct
    backend,         \* local: the RemoteBackend descriptor
    terraformrc,     \* the file ~/.terraformrc as the invocation found it
    rcFilePath,      \* local: path of the credentials file
    credentials,     \* local: rcFile.Credentials as decoded from HCL
    token,           \* local: the TFE token
    entitlements,    \* local: reply of Organizations.Entitlements
    tfeWorkspace,    \* local: reply of Workspaces.Read
    calls,           \* log of file reads and remote API calls, in order
    ret,             \* the (bool, error) pair returned, once pc = "Returned"
    exit             \* source line of the return or panic that ended the
                     \* invocation, 0 while it runs

vars == <<pc, workspace, projectAbsPath, stateFile, stateBytes, statefile,
          backend, terraformrc, rcFilePath, credentials, token, entitlements,
          tfeWorkspace, calls, ret, exit>>

(***************************************************************************)
(* Bounds of the model.                                                    *)
(***************************************************************************)
MaxWorkspaces == 2      \* longest "workspaces" list in a statefile

(***************************************************************************)
(* Go values.  A pointer is a sequence of length 0 (nil) or 1; an error   *)
(* is likewise <<>> (nil) or <<message>>.                                  *)
(***************************************************************************)
Nil == <<>>
Ptr(v) == <<v>>
Quote(s) == "\"" \o s \o "\""                \* %q of a string without escapes
Join(dir, rel) == dir \o "/" \o rel          \* filepath.Join of clean paths
Wrap(err, msg) == <<msg \o ": " \o err[1]>>  \* errors.Wrap(err, msg)
Return(b, err) == [b |-> b, err |-> err]

(***************************************************************************)
(* JSON documents, as trees.  An object is the sequence of its members in *)
(* document order, each a key and a value; a key is the sequence of its   *)
(* characters, so that keys can be compared letter by letter.  The two    *)
(* non-ASCII characters that fold to ASCII letters are written KELVIN     *)
(* (U+212A) and LONG_S (U+017F).                                           *)
(***************************************************************************)
JNull == [k |-> "null"]
JNum == [k |-> "number"]
JStr(s) == [k |-> "string", s |-> s]
JArr(a) == [k |-> "array", a |-> a]
JObj(m) == [k |-> "object", m |-> m]
Member(key, val) == [key |-> key, val |-> val]

\* the json tags of the Statefile struct
TagBackend == <<"b", "a", "c", "k", "e", "n", "d">>
TagType == <<"t", "y", "p", "e">>
TagConfig == <<"c", "o", "n", "f", "i", "g">>
TagHostname == <<"h", "o", "s", "t", "n", "a", "m", "e">>
TagOrganization == <<"o", "r", "g", "a", "n", "i", "z", "a", "t", "i", "o", "n">>
TagWorkspaces == <<"w", "o", "r", "k", "s", "p", "a", "c", "e", "s">>
TagName == <<"n", "a", "m", "e">>
TagPrefix == <<"p", "r", "e", "f", "i", "x">>

UpperCase ==
    [a |-> "A", b |-> "B", c |-> "C", d |-> "D", e |-> "E", f |-> "F", g |-> "G",
     h |-> "H", i |-> "I", j |-> "J", k |-> "K", l |-> "L", m |-> "M", n |-> "N",
     o |-> "O", p |-> "P", q |-> "Q", r |-> "R", s |-> "S", t |-> "T", u |-> "U",
     v |-> "V", w |-> "W", x |-> "X", y |-> "Y", z |-> "Z",
     KELVIN |-> "K", LONG_S |-> "S"]

\* the case folding of encoding/json: ASCII letters to upper case, the Kelvin
\* sign to K and the long s to S
FoldChar(c) == IF c \in DOMAIN UpperCase THEN UpperCase[c] ELSE c

\* encoding/json matches an object key to a struct field when the key equals
\* the field's name under case folding
EqualFold(key, tag) ==
    /\ Len(key) = Len(tag)
    /\ \A i \in 1..Len(key) : FoldChar(key[i]) = FoldChar(tag[i])

(***************************************************************************)
(* encoding/json decoding into the Statefile struct.  A decoder takes the *)
(* current Go value and the JSON value and returns [err, v]: err is TRUE  *)
(* when a JSON kind does not fit the Go type, and decoding goes on.  The  *)
(* members of an object are decoded in document order into the field      *)
(* their key matches; when two keys match the same field the later one    *)
(* decodes into what the earlier one left.  Keys that match no field are  *)
(* skipped.  A JSON null sets a pointer to nil and leaves a string as it  *)
(* is.  Any other value decoded into a nil pointer allocates what the     *)
(* pointer points to before the kind of the value is looked at, so a      *)
(* value of the wrong kind leaves the pointer at a new zero value.         *)
(*                                                                         *)
(* A slice is its length and the written part of its backing array: the   *)
(* elements past the length are those an earlier, longer array left.       *)
(***************************************************************************)
Slice(len, array) == [len |-> len, array |-> array]
NilSlice == Slice(0, <<>>)
ZeroWorkspace == [Name |-> "", Prefix |-> ""]
ZeroConfig == [Hostname |-> Nil, Organization |-> Nil, Workspaces |-> Nil]
ZeroBackend == [Type |-> Nil, Config |-> Nil]
ZeroStatefile == [Backend |-> Nil]

Decoded(err, v) == [err |-> err, v |-> v]

DecString(cur, j) ==
    IF j.k = "null" THEN Decoded(FALSE, cur)
    ELSE IF j.k = "string" THEN Decoded(FALSE, j.s)
    ELSE Decoded(TRUE, cur)

\* what a pointer points to, a new zero value when the pointer is nil
Pointee(cur, zero) == IF cur = Nil THEN zero ELSE cur[1]

DecStringPtr(cur, j) ==
    IF j.k = "null" THEN Decoded(FALSE, Nil)
    ELSE IF j.k = "string" THEN Decoded(FALSE, Ptr(j.s))
    ELSE Decoded(TRUE, Ptr(Pointee(cur, "")))

\* the struct with one field replaced by what was decoded for it
SetField(cur, field, d) == Decoded(d.err, [cur EXCEPT ![field] = d.v])

\* decoding goes on after a member that does not fit: the error is kept
AndThen(err, d) == Decoded(err \/ d.err, d.v)

\* a pointer to what was decoded
PtrTo(d) == Decoded(d.err, Ptr(d.v))

\* one member of a workspaces entry
WorkspaceMember(cur, mem) ==
    IF EqualFold(mem.key, TagName)
        THEN SetField(cur, "Name", DecString(cur.Name, mem.val))
    ELSE IF EqualFold(mem.key, TagPrefix)
        THEN SetField(cur, "Prefix", DecString(cur.Prefix, mem.val))
    ELSE Decoded(FALSE, cur)

RECURSIVE DecWorkspaceMembers(_, _, _)
DecWorkspaceMembers(acc, m, i) ==
    IF i > Len(m) THEN acc
    ELSE DecWorkspaceMembers(AndThen(acc.err, WorkspaceMember(acc.v, m[i])), m, i + 1)

DecWorkspace(cur, e) ==
    IF e.k = "null" THEN Decoded(FALSE, cur)
    ELSE IF e.k # "object" THEN Decoded(TRUE, cur)
    ELSE DecWorkspaceMembers(Decoded(FALSE, cur), e.m, 1)

\* element i of a JSON array decodes into element i of the backing array
\* when an earlier array wrote one, and into a zero element otherwise
DecElement(old, a, i) ==
    DecWorkspace(IF i <= Len(old.array) THEN old.array[i] ELSE ZeroWorkspace, a[i])

\* the slice of the decoded elements: an empty array gives a new empty slice,
\* a shorter array than before leaves the old elements past the new length
Collect(old, ds) ==
    Decoded(\E i \in 1..Len(ds) : ds[i].err,
            IF Len(ds) = 0 THEN NilSlice
            ELSE Slice(Len(ds),
                       [i \in 1..Len(ds) |-> ds[i].v]
                           \o SubSeq(old.array, Len(ds) + 1, Len(old.array))))

DecSlice(old, a) == Collect(old, [i \in 1..Len(a) |-> DecElement(old, a, i)])

DecWorkspaces(cur, j) ==
    IF j.k = "null" THEN Decoded(FALSE, Nil)
    ELSE IF j.k # "array" THEN Decoded(TRUE, Ptr(Pointee(cur, NilSlice)))
    ELSE PtrTo(DecSlice(Pointee(cur, NilSlice), j.a))

\* one member of a config block
ConfigMember(cur, mem) ==
    IF EqualFold(mem.key, TagHostname)
        THEN SetField(cur, "Hostname", DecStringPtr(cur.Hostname, mem.val))
    ELSE IF EqualFold(mem.key, TagOrganization)
        THEN SetField(cur, "Organization", DecStringPtr(cur.Organization, mem.val))
    ELSE IF EqualFold(mem.key, TagWorkspaces)
        THEN SetField(cur, "Workspaces", DecWorkspaces(cur.Workspaces, mem.val))
    ELSE Decoded(FALSE, cur)

RECURSIVE DecConfigMembers(_, _, _)
DecConfigMembers(acc, m, i) ==
    IF i > Len(m) THEN acc
    ELSE DecConfigMembers(AndThen(acc.err, ConfigMember(acc.v, m[i])), m, i + 1)

DecConfig(cur, j) ==
    IF j.k = "null" THEN Decoded(FALSE, Nil)
    ELSE IF j.k # "object" THEN Decoded(TRUE, Ptr(Pointee(cur, ZeroConfig)))
    ELSE PtrTo(DecConfigMembers(Decoded(FALSE, Pointee(cur, ZeroConfig)), j.m, 1))

\* one member of a backend block
BackendMember(cur, mem) ==
    IF EqualFold(mem.key, TagType)
        THEN SetField(cur, "Type", DecStringPtr(cur.Type, mem.val))
    ELSE IF EqualFold(mem.key, TagConfig)
        THEN SetField(cur, "Config", DecConfig(cur.Config, mem.val))
    ELSE Decoded(FALSE, cur)

RECURSIVE DecBackendMembers(_, _, _)
DecBackendMembers(acc, m, i) ==
    IF i > Len(m) THEN acc
    ELSE DecBackendMembers(AndThen(acc.err, BackendMember(acc.v, m[i])), m, i + 1)

DecBackend(cur, j) ==
    IF j.k = "null" THEN Decoded(FALSE, Nil)
    ELSE IF j.k # "object" THEN Decoded(TRUE, Ptr(Pointee(cur, ZeroBackend)))
    ELSE PtrTo(DecBackendMembers(Decoded(FALSE, Pointee(cur, ZeroBackend)), j.m, 1))

\* one member of the statefile's top-level object
StatefileMember(cur, mem) ==
    IF EqualFold(mem.key, TagBackend)
        THEN SetField(cur, "Backend", DecBackend(cur.Backend, mem.val))
    ELSE Decoded(FALSE, cur)

RECURSIVE DecStatefileMembers(_, _, _)
DecStatefileMembers(acc, m, i) ==
    IF i > Len(m) THEN acc
    ELSE DecStatefileMembers(AndThen(acc.err, StatefileMember(acc.v, m[i])), m, i + 1)

\* the error json.Unmarshal returns after decoding the top-level object
Unmarshalled(d) ==
    [err |-> IF d.err
                THEN <<"json: cannot unmarshal into Go struct field Statefile.backend">>
                ELSE Nil,
     v |-> d.v]

\* json.Unmarshal(stateBytes, &statefile)
Unmarshal(doc) ==
    IF doc.k = "invalid" THEN [err |-> <<"invalid character in statefile">>, v |-> ZeroStatefile]
    ELSE IF doc.k = "null" THEN [err |-> Nil, v |-> ZeroStatefile]
    ELSE IF doc.k # "object"
        THEN [err |-> <<"json: cannot unmarshal " \o doc.k \o " into Go value of type runtime.Statefile">>,
              v |-> ZeroStatefile]
    ELSE Unmarshalled(DecStatefileMembers(Decoded(FALSE, ZeroStatefile), doc.m, 1))

(***************************************************************************)
(* The backend resolver: the closure of UsingRemoteOps that validates the *)
(* statefile and builds the RemoteBackend descriptor.                      *)
(***************************************************************************)
ZeroRemoteBackend ==
    [Hostname |-> "", Organization |-> "", WorkspaceName |-> "", WorkspacePrefix |-> ""]

DefaultHostname == "app.terraform.io"

\* backend.Config.Workspaces == nil || len(*backend.Config.Workspaces) == 0
NoWorkspaces(config) ==
    config.Workspaces = Nil \/ config.Workspaces[1].len = 0

\* slip: the second comparison inverted
WorkspaceUnsetMut(ws) == ws.Name = "" /\ ws.Prefix # ""

\* workspace.Name == "" && workspace.Prefix == ""
WorkspaceUnset(ws) == ws.Name = "" /\ ws.Prefix = ""

\* slip: the configured hostname is ignored
ResolveHostnameMut(config) == DefaultHostname

\* hostname := "app.terraform.io"; if Hostname != nil { hostname = *Hostname }
ResolveHostname(config) ==
    IF config.Hostname # Nil THEN config.Hostname[1] ELSE DefaultHostname

\* slip: the prefix is not copied into the descriptor
DescriptorMut(config, ws) ==
    [Hostname |-> ResolveHostname(config),
     Organization |-> config.Organization[1],
     WorkspaceName |-> ws.Name,
     WorkspacePrefix |-> ""]

\* RemoteBackend{Hostname: hostname, Organization: org, WorkspaceName: ..., WorkspacePrefix: ...}
Descriptor(config, ws) ==
    [Hostname |-> ResolveHostname(config),
     Organization |-> config.Organization[1],
     WorkspaceName |-> ws.Name,
     WorkspacePrefix |-> ws.Prefix]

Resolved(isRemote, b, err) ==
    [panic |-> FALSE, isRemote |-> isRemote, backend |-> b, err |-> err]

\* *backend.Type with backend.Type == nil: nil pointer dereference
NilDereference ==
    [panic |-> TRUE, isRemote |-> FALSE, backend |-> ZeroRemoteBackend, err |-> Nil]

BackendResolver(s) ==
    IF s.Backend = Nil THEN Resolved(FALSE, ZeroRemoteBackend, Nil)
    ELSE LET b == s.Backend[1] IN
    IF b.Type = Nil THEN NilDereference
    ELSE IF b.Type[1] # "remote" THEN Resolved(FALSE, ZeroRemoteBackend, Nil)
    ELSE IF b.Config = Nil
        THEN Resolved(FALSE, ZeroRemoteBackend,
                 <<"statefile backend is of type \"remote\" but has no backend.config block">>)
    ELSE LET config == b.Config[1] IN
    IF config.Organization = Nil
        THEN Resolved(FALSE, ZeroRemoteBackend,
                 <<"statefile backend is of type \"remote\" but has no organization set">>)
    ELSE IF NoWorkspaces(config)
        THEN Resolved(FALSE, ZeroRemoteBackend,
                 <<"statefile backend is of type \"remote\" but has no workspaces set">>)
    ELSE LET ws == config.Workspaces[1].array[1] IN
    IF WorkspaceUnset(ws)
        THEN Resolved(FALSE, ZeroRemoteBackend,
                 <<"statefile backend is of type \"remote\" but workspace has neither name nor prefix set">>)
    ELSE Resolved(TRUE, Descriptor(config, ws), Nil)

(***************************************************************************)
(* The remote checks.                                                      *)
(***************************************************************************)
\* slip: the negation dropped
NotEntitledMut(e) == e.Operations

\* !entitlements.Operations
NotEntitled(e) == ~e.Operations

\* slip: the exact name takes precedence over the prefix
TfeWorkspaceNameMut(b, w) ==
    IF b.WorkspaceName # "" THEN b.WorkspaceName ELSE b.WorkspacePrefix \o w

\* tfeWorkspaceName := WorkspaceName; if WorkspacePrefix != "" { prefix + workspace }
TfeWorkspaceName(b, w) ==
    IF b.WorkspacePrefix # "" THEN b.WorkspacePrefix \o w ELSE b.WorkspaceName

\* slip: reaching the end counts as using remote ops
FinalAnswerMut(read) == Return(TRUE, Nil)

\* return tfeWorkspace.Operations, nil
FinalAnswer(read) == Return(read.Operations, Nil)

(***************************************************************************)
(* The inputs: statefiles, arguments, credentials files, API replies.      *)
(***************************************************************************)
\* spellings of keys that the decoder matches to a field, and one it does not
KeyBackendCapital == <<"B", "a", "c", "k", "e", "n", "d">>
KeyBackendKelvin == <<"b", "a", "c", "KELVIN", "e", "n", "d">>
KeyTypeUpper == <<"T", "Y", "P", "E">>
KeyVersion == <<"v", "e", "r", "s", "i", "o", "n">>

Field(keys, vals) == [keys |-> keys, vals |-> vals]

\* a field's member in an object: none, or one with one of the field's keys
\* and one of its values
Optional(field) ==
    {<<>>} \cup {<<Member(key, v)>> : key \in field.keys, v \in field.vals}

\* the objects that have the given fields, each optional, in this order
Objects1(f1) == {JObj(a) : a \in Optional(f1)}
Objects2(f1, f2) == {JObj(a \o b) : a \in Optional(f1), b \in Optional(f2)}
Objects3(f1, f2, f3) ==
    {JObj(a \o b \o c) : a \in Optional(f1), b \in Optional(f2), c \in Optional(f3)}

SeqsUpTo(n, S) == UNION {[1..m -> S] : m \in 0..n}

WorkspaceDocs ==
    Objects2(Field({TagName}, {JStr("exact")}), Field({TagPrefix}, {JStr("my-")}))

WorkspacesDocs ==
    {JArr(a) : a \in SeqsUpTo(MaxWorkspaces, WorkspaceDocs)} \cup {JNull, JNum}

ConfigDocs ==
    Objects3(Field({TagHostname}, {JStr("tfe.corp")}),
             Field({TagOrganization}, {JStr(""), JStr("acme")}),
             Field({TagWorkspaces}, WorkspacesDocs)) \cup {JNull}

BackendDocs ==
    Objects2(Field({TagType, KeyTypeUpper}, {JNull, JNum, JStr("remote"), JStr("s3"), JStr("")}),
             Field({TagConfig}, ConfigDocs)) \cup {JNull, JNum}

\* backend blocks for the statefiles in which two keys match the backend field
PartialBackendDocs ==
    {JNull, JNum,
     JObj(<<Member(TagType, JStr("remote"))>>),
     JObj(<<Member(TagType, JStr("s3"))>>),
     JObj(<<Member(TagConfig,
                   JObj(<<Member(TagOrganization, JStr("acme")),
                          Member(TagWorkspaces,
                                 JArr(<<JObj(<<Member(TagName, JStr("exact"))>>)>>))>>))>>)}

\* a remote backend whose config has the workspaces key twice, the second
\* array shorter than the first
RepeatedWorkspacesDocs ==
    {JObj(<<Member(TagBackend,
                   JObj(<<Member(TagType, JStr("remote")),
                          Member(TagConfig,
                                 JObj(<<Member(TagOrganization, JStr("acme")),
                                        Member(TagWorkspaces, JArr(<<x, y>>)),
                                        Member(TagWorkspaces, JArr(a))>>))>>))>>) :
        x \in WorkspaceDocs, y \in WorkspaceDocs, a \in SeqsUpTo(1, WorkspaceDocs)}

RepeatedKeyDocs ==
    {JObj(<<Member(k1, x), Member(k2, y)>>) :
        k1 \in {TagBackend, KeyVersion}, k2 \in {TagBackend, KeyBackendCapital, KeyBackendKelvin},
        x \in PartialBackendDocs, y \in PartialBackendDocs}

StateDocs ==
    Objects1(Field({TagBackend, KeyBackendCapital}, BackendDocs))
        \cup RepeatedKeyDocs
        \cup RepeatedWorkspacesDocs
        \cup {JNull, JNum, [k |-> "invalid"]}

StateFiles ==
    {[status |-> "missing", doc |-> JNull], [status |-> "unreadable", doc |-> JNull]}
    \cup {[status |-> "ok", doc |-> d] : d \in StateDocs}

LocalWorkspaces == {"default", "prod"}
ProjectPaths == {"/repo"}
HomeDirs == {"/home/atlantis"}
Hostnames == {"app.terraform.io", "tfe.corp"}

\* values an HCL attribute decodes to in a map[string]interface{}
TokenValues == {[k |-> "string", s |-> "tok"], [k |-> "int"], [k |-> "bool"], [k |-> "list"]}

HostnameConfs == UNION {[D -> TokenValues] : D \in SUBSET {"token"}}

CredentialMaps == UNION {[D -> HostnameConfs] : D \in SUBSET Hostnames}

\* what reading ~/.terraformrc gives: no home directory, no file, a file that
\* does not parse or decode, or the decoded credentials block
Terraformrc(status, creds) == [status |-> status, credentials |-> creds]

NoCall == <<>>
Call(op, a1, a2) == [op |-> op, a1 |-> a1, a2 |-> a2]

Init ==
    /\ pc = "Start"
    /\ workspace \in LocalWorkspaces
    /\ projectAbsPath \in ProjectPaths
    /\ stateFile \in StateFiles
    /\ stateBytes = JNull
    /\ statefile = ZeroStatefile
    /\ backend = ZeroRemoteBackend
    /\ terraformrc = Terraformrc("unread", <<>>)
    /\ rcFilePath = ""
    /\ credentials = <<>>
    /\ token = ""
    /\ entitlements = Nil
    /\ tfeWorkspace = Nil
    /\ calls = NoCall
    /\ ret = Return(FALSE, Nil)
    /\ exit = 0

(***************************************************************************)
(* The steps of UsingRemoteOps.                                            *)
(***************************************************************************)
Args == <<workspace, projectAbsPath, stateFile>>

StatefilePath == Join(projectAbsPath, ".terraform/terraform.tfstate")

\* return b, err
\* go on at the next step
Goto(next) ==
    /\ pc' = next
    /\ UNCHANGED <<ret, exit>>

Returns(line, b, err) ==
    /\ pc' = "Returned"
    /\ ret' = Return(b, err)
    /\ exit' = line

\* a run-time panic: the invocation ends without returning
Panics(line) ==
    /\ pc' = "Panicked"
    /\ exit' = line
    /\ UNCHANGED ret

\* slip: os.IsNotExist not consulted, every read failure is an error
ReadStatefileOutcomeMut(file) ==
    IF file.status # "ok"
        THEN [next |-> "Returned", line |-> 34, b |-> FALSE,
              err |-> <<"open " \o StatefilePath \o ": no such file or directory">>]
    ELSE [next |-> "Unmarshal", line |-> 0, b |-> FALSE, err |-> Nil]

\* the outcome of ioutil.ReadFile on the statefile
ReadStatefileOutcome(file) ==
    IF file.status = "missing"
        THEN [next |-> "Returned", line |-> 32, b |-> FALSE, err |-> Nil]
    ELSE IF file.status # "ok"
        THEN [next |-> "Returned", line |-> 34, b |-> FALSE,
              err |-> <<"open " \o StatefilePath \o ": permission denied">>]
    ELSE [next |-> "Unmarshal", line |-> 0, b |-> FALSE, err |-> Nil]

\* stateBytes, err := ioutil.ReadFile(...); not-exist is (false, nil)
ReadStatefile ==
    /\ pc = "Start"
    /\ calls' = Append(calls, Call("ReadFile", StatefilePath, ""))
    /\ LET o == ReadStatefileOutcome(stateFile) IN
        /\ pc' = o.next
        /\ ret' = IF o.next = "Returned" THEN Return(o.b, o.err) ELSE ret
        /\ exit' = o.line
        /\ stateBytes' = IF o.next = "Unmarshal" THEN stateFile.doc ELSE stateBytes
    /\ UNCHANGED <<Args, statefile, backend, terraformrc, rcFilePath, credentials, token,
                   entitlements, tfeWorkspace>>

\* err = json.Unmarshal(stateBytes, &statefile)
UnmarshalStatefile ==
    /\ pc = "Unmarshal"
    /\ LET u == Unmarshal(stateBytes) IN
        /\ statefile' = u.v
        /\ IF u.err # Nil
              THEN Returns(54, FALSE, u.err)
              ELSE Goto("Validate")
    /\ UNCHANGED <<Args, stateBytes, backend, terraformrc, rcFilePath, credentials, token,
                   entitlements, tfeWorkspace, calls>>

\* isRemote, backend, err := (func(s Statefile) ...)(statefile) and the two checks after it
ValidateStatefile ==
    /\ pc = "Validate"
    /\ LET r == BackendResolver(statefile) IN
        /\ backend' = r.backend
        /\ IF r.panic THEN Panics(72)
           ELSE IF r.err # Nil THEN Returns(107, FALSE, r.err)
           ELSE IF ~r.isRemote THEN Returns(111, FALSE, Nil)
           ELSE Goto("ReadRc")
    /\ UNCHANGED <<Args, stateBytes, statefile, terraformrc, rcFilePath, credentials, token,
                   entitlements, tfeWorkspace, calls>>

\* homedir.Dir, ioutil.ReadFile(rcFilePath), hcl.Parse, hcl.DecodeObject
ReadTerraformrc ==
    /\ pc = "ReadRc"
    /\ \/ /\ terraformrc' = Terraformrc("nohome", <<>>)
          /\ Returns(121, FALSE, Wrap(<<"cannot find home directory">>,
                                 "retrieving token from .terraformrc file"))
          /\ UNCHANGED <<rcFilePath, credentials, calls>>
       \/ \E home \in HomeDirs :
            LET path == Join(home, ".terraformrc") IN
            /\ rcFilePath' = path
            /\ calls' = Append(calls, Call("ReadFile", path, ""))
            /\ \/ /\ terraformrc' = Terraformrc("missing", <<>>)
                  /\ Returns(126, FALSE, Wrap(<<"open " \o path \o ": no such file or directory">>,
                                         "retrieving token from .terraformrc file"))
                  /\ UNCHANGED credentials
               \/ /\ terraformrc' = Terraformrc("unparsable", <<>>)
                  /\ Returns(130, FALSE, Wrap(<<"illegal char">>,
                                         "parsing .terraformrc file to retrieve TFE token"))
                  /\ UNCHANGED credentials
               \/ /\ terraformrc' = Terraformrc("undecodable", <<>>)
                  /\ Returns(138, FALSE, Wrap(<<"credentials: not an object type for map">>,
                                         "decoding .terraformrc file to retrieve TFE token"))
                  /\ UNCHANGED credentials
               \/ \E c \in CredentialMaps :
                    /\ terraformrc' = Terraformrc("ok", c)
                    /\ credentials' = c
                    /\ Goto("FindToken")
    /\ UNCHANGED <<Args, stateBytes, statefile, backend, token, entitlements, tfeWorkspace>>

NoCredentialsError(hostname, path) ==
    <<"found no credentials config for hostname " \o Quote(hostname) \o " in " \o Quote(path)>>

NoTokenError(hostname, path) ==
    <<"found no token key in config for hostname " \o Quote(hostname) \o " in " \o Quote(path)>>

\* the outcome of the two map lookups and of tokenGeneric.(string)
TokenLookup(creds, hostname, path) ==
    IF hostname \notin DOMAIN creds
        THEN [panic |-> FALSE, line |-> 143, err |-> NoCredentialsError(hostname, path), token |-> ""]
    ELSE IF "token" \notin DOMAIN creds[hostname]
        THEN [panic |-> FALSE, line |-> 147, err |-> NoTokenError(hostname, path), token |-> ""]
    ELSE IF creds[hostname]["token"].k # "string"
        THEN [panic |-> TRUE, line |-> 149, err |-> Nil, token |-> ""]
    ELSE [panic |-> FALSE, line |-> 0, err |-> Nil, token |-> creds[hostname]["token"].s]

\* hostnameConf, ok := rcFile.Credentials[backend.Hostname] ... token := tokenGeneric.(string)
FindToken ==
    /\ pc = "FindToken"
    /\ LET t == TokenLookup(credentials, backend.Hostname, rcFilePath) IN
        /\ token' = t.token
        /\ IF t.panic THEN Panics(t.line)
           ELSE IF t.err # Nil THEN Returns(t.line, FALSE, t.err)
           ELSE Goto("Entitlements")
    /\ UNCHANGED <<Args, stateBytes, statefile, backend, terraformrc, rcFilePath, credentials,
                   entitlements, tfeWorkspace, calls>>

EntitlementsReplies == {Nil} \cup {Ptr([Operations |-> o]) : o \in BOOLEAN}
WorkspaceReplies == {Nil} \cup {Ptr([Operations |-> o]) : o \in BOOLEAN}

\* tfe.NewClient and client.Organizations.Entitlements(ctx, backend.Organization)
CheckEntitlements ==
    /\ pc = "Entitlements"
    /\ \/ /\ Returns(157, FALSE, Wrap(<<"missing API token">>,
                                 "creating TFE API client to determine if using remote ops"))
          /\ UNCHANGED <<entitlements, calls>>
       \/ /\ calls' = Append(calls, Call("Organizations.Entitlements", backend.Organization, ""))
          /\ \/ /\ Returns(161, FALSE, Wrap(<<"resource not found">>,
                                       "calling TFE API to determine if using remote ops"))
                /\ UNCHANGED entitlements
             \/ \E reply \in EntitlementsReplies :
                  /\ entitlements' = reply
                  /\ IF reply = Nil
                        THEN Returns(164, FALSE,
                                 <<"got nil entitlements calling TFE API to determine if using remote ops">>)
                     ELSE IF NotEntitled(reply[1]) THEN Returns(168, FALSE, Nil)
                     ELSE Goto("Workspace")
    /\ UNCHANGED <<Args, stateBytes, statefile, backend, terraformrc, rcFilePath, credentials,
                   token, tfeWorkspace>>

\* client.Workspaces.Read(ctx, backend.Organization, tfeWorkspaceName)
CheckWorkspace ==
    /\ pc = "Workspace"
    /\ calls' = Append(calls, Call("Workspaces.Read", backend.Organization,
                                   TfeWorkspaceName(backend, workspace)))
    /\ \/ /\ Returns(180, FALSE, Wrap(<<"resource not found">>,
                                 "calling TFE API to determine if using remote ops"))
          /\ UNCHANGED tfeWorkspace
       \/ \E reply \in WorkspaceReplies :
            /\ tfeWorkspace' = reply
            /\ IF reply = Nil
                  THEN Returns(183, FALSE,
                           <<"got nil workspace calling TFE API to determine if using remote ops">>)
                  ELSE /\ pc' = "Returned"
                       /\ ret' = FinalAnswer(reply[1])
                       /\ exit' = 186
    /\ UNCHANGED <<Args, stateBytes, statefile, backend, terraformrc, rcFilePath, credentials,
                   token, entitlements>>

Next ==
    \/ ReadStatefile
    \/ UnmarshalStatefile
    \/ ValidateStatefile
    \/ ReadTerraformrc
    \/ FindToken
    \/ CheckEntitlements
    \/ CheckWorkspace

Spec == Init /\ [][Next]_vars

(***************************************************************************)
(* Vocabulary of the properties.                                           *)
(***************************************************************************)
\* the statefile was read and decoded without error (line 54 not taken);
\* TheStatefile is then the Statefile it decoded to
Parsed == stateFile.status = "ok" /\ pc \notin {"Start", "Unmarshal"} /\ exit # 54
TheStatefile == statefile

\* the invocation is past the backend resolver with isRemote = true
BackendResolved == pc = "ReadRc" \/ terraformrc.status # "unread"

StatefileRead == Call("ReadFile", StatefilePath, "")
IsApiCall(c) == c.op \in {"Organizations.Entitlements", "Workspaces.Read"}
ApiCalls == {i \in 1..Len(calls) : IsApiCall(calls[i])}
OnlyStatefileRead == \A i \in 1..Len(calls) : calls[i] = StatefileRead

\* a backend block of type "remote" that lacks config, organization,
\* workspaces, or a name or prefix in the first workspace entry
Incomplete ==
    /\ Parsed
    /\ TheStatefile.Backend # Nil
    /\ TheStatefile.Backend[1].Type = <<"remote">>
    /\ LET c == TheStatefile.Backend[1].Config IN
        \/ c = Nil
        \/ c[1].Organization = Nil
        \/ c[1].Workspaces = Nil
        \/ c[1].Workspaces[1].len = 0
        \/ c[1].Workspaces[1].array[1] = [Name |-> "", Prefix |-> ""]

\* the first workspace entry and the hostname field of a resolved backend
FirstEntry == TheStatefile.Backend[1].Config[1].Workspaces[1].array[1]
ExpectedHostname ==
    IF TheStatefile.Backend[1].Config[1].Hostname = Nil
        THEN "app.terraform.io"
        ELSE TheStatefile.Backend[1].Config[1].Hostname[1]

(***************************************************************************)
(* C1: a statefile with a backend block whose type is not "remote" (any   *)
(* other string, or an absent/null type) ends in (false, nil): never in   *)
(* an error or a crash, and nothing but the statefile is read.             *)
(***************************************************************************)
C1_NonRemoteBackendIsNotRemote ==
    (Parsed /\ TheStatefile.Backend # Nil /\ TheStatefile.Backend[1].Type # <<"remote">>)
        => /\ pc \in {"Start", "Unmarshal", "Validate", "Returned"}
           /\ OnlyStatefileRead
           /\ pc = "Returned" => ret = Return(FALSE, Nil)

(***************************************************************************)
(* C2: an incomplete "remote" backend ends in (false, error): never the   *)
(* silent (false, nil), never the credential stage, never an API call.     *)
(***************************************************************************)
C2_IncompleteRemoteIsError ==
    Incomplete
        => /\ pc \in {"Start", "Unmarshal", "Validate", "Returned"}
           /\ terraformrc.status = "unread"
           /\ OnlyStatefileRead
           /\ pc = "Returned" => (ret.b = FALSE /\ ret.err # Nil)

C2_Witness ==
    /\ Incomplete
    /\ pc = "Returned"
    /\ TheStatefile.Backend[1].Config # Nil
    /\ TheStatefile.Backend[1].Config[1].Organization # Nil
    /\ TheStatefile.Backend[1].Config[1].Workspaces # Nil
    /\ TheStatefile.Backend[1].Config[1].Workspaces[1].len > 0

(***************************************************************************)
(* C3: when the entitlements reply is non-nil with Operations = false the *)
(* result is (false, nil) and the entitlements call is the only API call: *)
(* the workspace is never read.                                            *)
(***************************************************************************)
C3_NotEntitledStopsBeforeWorkspace ==
    (entitlements # Nil /\ ~entitlements[1].Operations)
        => /\ pc = "Returned"
           /\ ret = Return(FALSE, Nil)
           /\ tfeWorkspace = Nil
           /\ Cardinality(ApiCalls) = 1
           /\ \A i \in ApiCalls : calls[i].op = "Organizations.Entitlements"

C3_Witness ==
    /\ entitlements = <<[Operations |-> FALSE]>>
    /\ pc = "Returned"
    /\ Len(calls) = 3

(***************************************************************************)
(* C4: the name sent to Workspaces.Read is prefix + local workspace when  *)
(* the first workspace entry has a prefix, otherwise the entry's name     *)
(* verbatim; later entries play no part.                                   *)
(***************************************************************************)
C4_EffectiveWorkspaceName ==
    \A i \in 1..Len(calls) :
        calls[i].op = "Workspaces.Read"
            => /\ calls[i].a2 = IF FirstEntry.Prefix # ""
                                   THEN FirstEntry.Prefix \o workspace
                                   ELSE FirstEntry.Name
               /\ (FirstEntry.Prefix = "my-" /\ workspace = "prod") => calls[i].a2 = "my-prod"
               /\ (FirstEntry.Prefix = "" /\ FirstEntry.Name = "exact") => calls[i].a2 = "exact"

C4_Witness ==
    /\ Len(calls) = 4
    /\ calls[4].op = "Workspaces.Read"
    /\ calls[4].a2 = "my-prod"
    /\ FirstEntry.Name = "exact"
    /\ TheStatefile.Backend[1].Config[1].Workspaces[1].len = 2
    /\ TheStatefile.Backend[1].Config[1].Workspaces[1].array[2] = [Name |-> "exact", Prefix |-> ""]

(***************************************************************************)
(* C5: when the workspace read returns a workspace the result is          *)
(* (its Operations flag, nil); so (true, nil) is returned only when the   *)
(* entitlement and the workspace flag are both true.                       *)
(***************************************************************************)
C5_AnswerIsWorkspaceOperations ==
    /\ tfeWorkspace # Nil
        => (pc = "Returned" /\ ret = Return(tfeWorkspace[1].Operations, Nil))
    /\ (pc = "Returned" /\ ret.b)
        => /\ ret.err = Nil
           /\ entitlements = <<[Operations |-> TRUE]>>
           /\ tfeWorkspace = <<[Operations |-> TRUE]>>

C5_Witness ==
    /\ pc = "Returned"
    /\ entitlements = <<[Operations |-> TRUE]>>
    /\ tfeWorkspace = <<[Operations |-> FALSE]>>
    /\ ret = Return(FALSE, Nil)

(***************************************************************************)
(* C6: a token that is not text ends in a returned (false, error); the    *)
(* invocation does not terminate abnormally and makes no API call.         *)
(***************************************************************************)
NonTextToken ==
    /\ terraformrc.status = "ok"
    /\ backend.Hostname \in DOMAIN credentials
    /\ "token" \in DOMAIN credentials[backend.Hostname]
    /\ credentials[backend.Hostname]["token"].k # "string"

C6_NonTextTokenIsReturnedError ==
    NonTextToken
        => /\ pc \in {"FindToken", "Returned"}
           /\ ApiCalls = {}
           /\ pc = "Returned" => (ret.b = FALSE /\ ret.err # Nil)

(***************************************************************************)
(* C7: credentials are looked up under the configured hostname, or under  *)
(* "app.terraform.io" when none is configured; a missing entry or a       *)
(* missing token key gives (false, error) naming that hostname and the    *)
(* credentials file, and no API call.                                      *)
(***************************************************************************)
C7_MissingCredentialsIsError ==
    (terraformrc.status = "ok" /\ pc # "FindToken")
        => /\ ExpectedHostname \notin DOMAIN terraformrc.credentials
               => /\ pc = "Returned"
                  /\ ApiCalls = {}
                  /\ ret = Return(FALSE,
                         <<"found no credentials config for hostname \"" \o ExpectedHostname
                               \o "\" in \"" \o rcFilePath \o "\"">>)
           /\ (/\ ExpectedHostname \in DOMAIN terraformrc.credentials
               /\ "token" \notin DOMAIN terraformrc.credentials[ExpectedHostname])
               => /\ pc = "Returned"
                  /\ ApiCalls = {}
                  /\ ret = Return(FALSE,
                         <<"found no token key in config for hostname \"" \o ExpectedHostname
                               \o "\" in \"" \o rcFilePath \o "\"">>)

C7_Witness ==
    /\ terraformrc.status = "ok"
    /\ pc = "Returned"
    /\ TheStatefile.Backend[1].Config[1].Hostname = Nil
    /\ DOMAIN terraformrc.credentials = {"tfe.corp"}
    /\ rcFilePath = "/home/atlantis/.terraformrc"
    /\ ret.err = <<"found no credentials config for hostname \"app.terraform.io\" in \"/home/atlantis/.terraformrc\"">>

(***************************************************************************)
(* C8: a missing statefile, or one without a backend key, gives           *)
(* (false, nil) from the first stages: no credentials read, no API call.  *)
(* A statefile that cannot be read or parsed gives (false, error).         *)
(***************************************************************************)
\* the keys of the statefile's top-level object that name the backend field:
\* "backend" in any letter case, as encoding/json matches keys
BackendMembers ==
    {i \in 1..Len(stateFile.doc.m) : EqualFold(stateFile.doc.m[i].key, TagBackend)}

NoBackendKey ==
    /\ stateFile.status = "ok"
    /\ stateFile.doc.k = "object"
    /\ BackendMembers = {}

Unparsable ==
    /\ stateFile.status = "ok"
    /\ \/ stateFile.doc.k \notin {"object", "null"}
       \/ /\ stateFile.doc.k = "object"
          /\ \E i \in BackendMembers : stateFile.doc.m[i].val.k \notin {"object", "null"}

C8_NoStatefileOrNoBackend ==
    /\ (stateFile.status = "missing" \/ NoBackendKey)
        => /\ pc \in {"Start", "Unmarshal", "Validate", "Returned"}
           /\ terraformrc.status = "unread"
           /\ OnlyStatefileRead
           /\ pc = "Returned" => ret = Return(FALSE, Nil)
    /\ (stateFile.status = "unreadable" \/ Unparsable)
        => /\ pc \in {"Start", "Unmarshal", "Returned"}
           /\ pc = "Returned" => (ret.b = FALSE /\ ret.err # Nil)

C8_Witness ==
    /\ stateFile.status = "missing"
    /\ pc = "Returned"
    /\ calls = <<StatefileRead>>

(***************************************************************************)
(* C9 as stated: in every constructed descriptor exactly one of           *)
(* WorkspaceName and WorkspacePrefix is non-empty.                         *)
(***************************************************************************)
C9_ExactlyOnePattern ==
    BackendResolved
        => (backend.WorkspaceName # "") # (backend.WorkspacePrefix # "")

(***************************************************************************)
(* C9 amended: in every constructed descriptor WorkspaceName and          *)
(* WorkspacePrefix are the first entry's name and prefix and at least one *)
(* of them is non-empty; both are non-empty when the entry sets both.      *)
(***************************************************************************)
C9_AtLeastOnePattern ==
    BackendResolved
        => /\ backend.WorkspaceName = FirstEntry.Name
           /\ backend.WorkspacePrefix = FirstEntry.Prefix
           /\ backend.WorkspaceName # "" \/ backend.WorkspacePrefix # ""

C9_Witness ==
    /\ BackendResolved
    /\ backend.WorkspaceName = "exact"
    /\ backend.WorkspacePrefix = "my-"

(***************************************************************************)
(* C10: past the backend resolver the Organization is non-empty, and so   *)
(* is the organization of every entitlements call.                         *)
(***************************************************************************)
C10_OrganizationNonEmpty ==
    /\ BackendResolved => backend.Organization # ""
    /\ \A i \in 1..Len(calls) :
           calls[i].op = "Organizations.Entitlements" => calls[i].a1 # ""
====
